---- MODULE Spec2Model ----
(***************************************************************************)
(* State-machine model of src/scraper.py (fetch_and_store): the Catalog    *)
(* read loop, the chunk loop over the Quote Source, the per-symbol         *)
(* snapshot and chart computation, the Ledger upsert, and the finally      *)
(* block (snapshot cache, history shards, prune call).                     *)
(*                                                                         *)
(* Units.  A timestamp is a number of minutes since the start of day 0, a  *)
(* raw price is a number of thousandths (mills), an output price (after    *)
(* round(x, 2)) is a number of cents, and change_percent is a number of    *)
(* hundredths of a percent.                                                *)
(***************************************************************************)
EXTENDS Integers, Sequences, FiniteSets, TLC

\* ------------------------------------------------------------- bounds
\* Length of the longest Catalog table of the model.
MaxStocks == 3
\* Chunk size of the model (scraper.py:57 sets 100).
BATCH_SIZE == 2
\* Catalog page size of the model (scraper.py:35 sets 1000).
fetch_size == 2
\* Calendar days the Quote Source window spans (the code asks for "5d").
NumDays == 2
\* Grid slots per day on which the Quote Source can stamp a candle.
Slots == 3
\* Rows of the largest raw candle table of one symbol.
MaxCandles == 3
\* Batch size of the seeder's upload loop (seeder.py:162 sets 100).
chunk_size == 2
\* Length of the longest master list of the seeder.
MaxMaster == 3

\* -------------------------------------------------- program constants
\* RESAMPLE_INTERVAL = "5min", in minutes.
RESAMPLE_INTERVAL == 5
\* Minutes of a calendar day: what index.normalize() truncates to.
DayMinutes == 1440
\* Seconds of a minute: Timestamp.timestamp() is in unix seconds.
MinuteSeconds == 60

\* A float column value is NaN or Num(x); a JSON list entry is None (null)
\* or Num(x).
NaN == [nan |-> TRUE]
None == [none |-> TRUE]
Num(x) == [v |-> x]

\* ------------------------------------------------------------ numbers
\* round-half-even of n / d (d # 0), the rounding of Python's round().
RoundDiv(n, d) ==
    LET nn == IF d < 0 THEN -n ELSE n
        dd == IF d < 0 THEN -d ELSE d
        q == nn \div dd
        r == nn % dd
    IN  IF 2 * r < dd THEN q
        ELSE IF 2 * r > dd THEN q + 1
        ELSE IF q % 2 = 0 THEN q ELSE q + 1

\* round(x, 2) of a price in mills: the price in cents.
Round2(x) == RoundDiv(x, 10)

\* ------------------------------------------------------------ symbols
\* A symbol is the sequence of its characters.
Letters == {"A", "B", "C", "T", "X", "a", "x"}

\* str.isalpha() on one character.
IsAlpha(c) == c \in Letters

\* str.upper() on one character.
Upper(c) ==
    CASE c = "a" -> "A"
      [] c = "x" -> "X"
      [] OTHER -> c

\* sub in symbol (substring test).
Contains(symbol, sub) ==
    \E i \in 1..(Len(symbol) - Len(sub) + 1) :
        SubSeq(symbol, i, i + Len(sub) - 1) = sub

\* The rows the Catalog table stock_profiles can hold, in table order.
Listing ==
    << [symbol |-> <<"A", "B">>, company_name |-> "Alpha", market |-> "US"],
       [symbol |-> <<"a", "x">>, company_name |-> "Axis", market |-> "IN"],
       [symbol |-> <<"9", "X">>, company_name |-> "Nine", market |-> "US"],
       [symbol |-> <<"B", "T", "C">>, company_name |-> "Bitcoin", market |-> "US"],
       [symbol |-> <<"^", "X">>, company_name |-> "Index", market |-> "US"] >>

Min(a, b) == IF a < b THEN a ELSE b

Catalogs == {SubSeq(Listing, 1, n) : n \in 0..Min(MaxStocks, Len(Listing))}

\* ------------------------------------------------------- raw candles
Date(ts) == ts \div DayMinutes

\* The grid timestamps of the window, and the timestamp of a live quote
\* stamped between two grid slots of the last day.
GridStamps ==
    {d * DayMinutes + i * RESAMPLE_INTERVAL : d \in 0..(NumDays - 1), i \in 0..(Slots - 1)}

LiveStamp ==
    (NumDays - 1) * DayMinutes + (Slots - 1) * RESAMPLE_INTERVAL
        + RESAMPLE_INTERVAL \div 2

LastSlot == (NumDays - 1) * DayMinutes + (Slots - 1) * RESAMPLE_INTERVAL

TimeStamps == GridStamps \cup {LiveStamp}

\* What a candle row can hold: a traded candle, a row without a close, and
\* a candle quoted at zero.  The prices of traded candles differ from one
\* timestamp to the next, also after rounding to cents.
Kinds == {"ok", "nan", "zero"}

Candle(ts, kind) ==
    [ts |-> ts,
     open |-> IF kind = "zero" THEN 0 ELSE 100000 + 7 * ts - 1004,
     close |-> CASE kind = "ok" -> Num(100000 + 7 * ts)
                 [] kind = "nan" -> NaN
                 [] OTHER -> Num(0)]

RECURSIVE SortedRows(_, _)
SortedRows(S, kind) ==
    IF S = {} THEN <<>>
    ELSE LET t == CHOOSE x \in S : \A y \in S : x <= y
         IN  <<Candle(t, kind[t])>> \o SortedRows(S \ {t}, kind)

\* The timestamp sets of the raw candle tables of one symbol.
StampSets == {T \in SUBSET TimeStamps : Cardinality(T) <= MaxCandles}

\* The tables of the pipeline runs: one row at the last slot, with or
\* without a close.
PipelineTables == {<<Candle(LastSlot, k)>> : k \in {"ok", "nan"}}

\* --------------------------------------------------- per-symbol steps
\* stock_df.dropna(subset=['Close'])
DropNa(df) == SelectSeq(df, LAMBDA c : c.close # NaN)

\* stock_df[stock_df.index.normalize() < current_time.normalize()]
PrevData(df, current_time) ==
    SelectSeq(df, LAMBDA c : Date(c.ts) < Date(current_time))

\* prev_close, were the earlier rows taken by time instead of by date.
PrevCloseByTime(df) ==
    LET prev_data == SelectSeq(df, LAMBDA c : c.ts < df[Len(df)].ts)
    IN  IF prev_data # <<>> THEN prev_data[Len(prev_data)].close.v ELSE df[1].open

\* prev_close (line 113), on a non-empty table without NaN closes.
PrevClose(df) ==
    LET prev_data == PrevData(df, df[Len(df)].ts)
    IN  IF prev_data # <<>> THEN prev_data[Len(prev_data)].close.v ELSE df[1].open

\* change_pct, were a reference price of zero divided by as one instead of
\* guarded.
ChangePctOfOne(change_value, prev_close) ==
    RoundDiv(change_value * 10000, IF prev_close # 0 THEN prev_close ELSE 1)

\* change_pct (line 116), in hundredths of a percent.
ChangePct(change_value, prev_close) ==
    IF prev_close # 0 THEN RoundDiv(change_value * 10000, prev_close) ELSE 0

\* market_type (lines 98-103).
MarketType(symbol, meta) ==
    IF meta.market = "US"
       /\ (Contains(symbol, <<"-", "U", "S", "D">>)
           \/ Contains(symbol, <<"B", "T", "C">>)
           \/ Contains(symbol, <<"E", "T", "H">>))
    THEN "CRYPTO" ELSE meta.market

\* datetime.isoformat(): the date and the time of day.
IsoFormat(ts) == <<ts \div DayMinutes, ts % DayMinutes>>

\* data_point (lines 106-128), on a non-empty table without NaN closes.
DataPoint(symbol, meta, df) ==
    LET last_candle == df[Len(df)]
        current_price == last_candle.close.v
        current_time == last_candle.ts
        prev_close == PrevClose(df)
        change_value == current_price - prev_close
    IN  [symbol |-> symbol,
         company_name |-> meta.company_name,
         market |-> MarketType(symbol, meta),
         price |-> Round2(current_price),
         change_percent |-> ChangePct(change_value, prev_close),
         change_value |-> Round2(change_value),
         recorded_at |-> IsoFormat(current_time),
         previous_close |-> Round2(prev_close)]

\* The rows charted, were the filter on the date of the last row left out.
TodaysDataWindow(df) == df

\* stock_df[stock_df.index.normalize() == last_ts.normalize()]
TodaysData(df) ==
    SelectSeq(df, LAMBDA c : Date(c.ts) = Date(df[Len(df)].ts))

\* The 5-minute bin a timestamp falls in.
Floor(ts) == ts - (ts % RESAMPLE_INTERVAL)

\* The resampling, were an empty slot filled with the close before it.
ResampleFilled(todays) ==
    LET first == Floor(todays[1].ts)
        last == Floor(todays[Len(todays)].ts)
        n == (last - first) \div RESAMPLE_INTERVAL + 1
        Upto(g) == {j \in 1..Len(todays) : todays[j].ts <= g}
        At(g) == IF Upto(g) # {}
                 THEN todays[CHOOSE j \in Upto(g) : \A m \in Upto(g) : m <= j].close
                 ELSE NaN
    IN  [i \in 1..n |-> [ts |-> first + (i - 1) * RESAMPLE_INTERVAL,
                         close |-> At(first + (i - 1) * RESAMPLE_INTERVAL)]]

\* todays_data.resample(RESAMPLE_INTERVAL).asfreq()['Close']: one slot per
\* interval from the bin of the first row to the bin of the last row; a
\* slot holds the close of the row stamped at the slot's time, and NaN
\* when there is no such row.
Resample(todays) ==
    LET first == Floor(todays[1].ts)
        last == Floor(todays[Len(todays)].ts)
        n == (last - first) \div RESAMPLE_INTERVAL + 1
        At(g) == IF \E j \in 1..Len(todays) : todays[j].ts = g
                 THEN todays[CHOOSE j \in 1..Len(todays) : todays[j].ts = g].close
                 ELSE NaN
    IN  [i \in 1..n |-> [ts |-> first + (i - 1) * RESAMPLE_INTERVAL,
                         close |-> At(first + (i - 1) * RESAMPLE_INTERVAL)]]

\* history_cache[symbol] (lines 137-157), on a non-empty table.
ChartPayload(df) ==
    LET todays_data == Resample(TodaysData(df))
    IN  [s |-> todays_data[1].ts * MinuteSeconds,
         p |-> [i \in 1..Len(todays_data) |->
                  IF todays_data[i].close # NaN
                  THEN Num(Round2(todays_data[i].close.v)) ELSE None]]

\* ------------------------------------------------------- dictionaries
\* A Python dict is the sequence of its entries [key, val] in insertion
\* order.
Keys(d) == {d[i].key : i \in 1..Len(d)}

Get(d, k) == d[CHOOSE i \in 1..Len(d) : d[i].key = k].val

\* d[k] = v
DictSet(d, k, v) ==
    IF k \in Keys(d)
    THEN [i \in 1..Len(d) |-> IF d[i].key = k THEN [key |-> k, val |-> v] ELSE d[i]]
    ELSE Append(d, [key |-> k, val |-> v])

Range(seq) == {seq[i] : i \in 1..Len(seq)}

\* ------------------------------------------------------------- ledger
\* db_payload (lines 164-170): the LedgerRow of each data point.
DbRow(p) ==
    [symbol |-> p.symbol, price |-> p.price, change_percent |-> p.change_percent,
     change_value |-> p.change_value, recorded_at |-> p.recorded_at]

DbPayload(payload) == [i \in 1..Len(payload) |-> DbRow(payload[i])]

SameKey(r, q) == r.symbol = q.symbol /\ r.recorded_at = q.recorded_at

\* The upsert, were ignore_duplicates set: a row whose key is stored is
\* dropped.
LedgerUpsertIgnoring(table, rows) ==
    table \cup {r \in Range(rows) : \A q \in table : ~SameKey(r, q)}

\* upsert(db_payload, on_conflict="symbol, recorded_at",
\* ignore_duplicates=False) on the table stock_prices (lines 172-174): a
\* row whose key is stored replaces the stored row, any other row is added.
LedgerUpsert(table, rows) ==
    {r \in table : \A i \in 1..Len(rows) : ~SameKey(r, rows[i])} \cup Range(rows)

\* ------------------------------------------------------------- shards
\* shard_name, were the first character not uppercased.
ShardNameAsWritten(symbol) ==
    IF IsAlpha(symbol[1]) THEN "history_" \o symbol[1] ELSE "history_0-9"

\* shard_name of one symbol (lines 204-210).
ShardName(symbol) ==
    LET first_char == Upper(symbol[1])
    IN  IF IsAlpha(first_char) THEN "history_" \o first_char ELSE "history_0-9"

\* The loop of lines 200-215 over history_cache.items(), from entry i on.
RECURSIVE ShardFrom(_, _, _)
ShardFrom(cache, i, acc) ==
    IF i > Len(cache) THEN acc
    ELSE LET shard_name == ShardName(cache[i].key)
             had == IF shard_name \in Keys(acc) THEN acc ELSE DictSet(acc, shard_name, <<>>)
         IN  ShardFrom(cache, i + 1,
                 DictSet(had, shard_name,
                         DictSet(Get(had, shard_name), cache[i].key, cache[i].val)))

\* The sharding loop, were a shard replaced by its latest symbol instead
\* of extended.
RECURSIVE ShardReplacing(_, _, _)
ShardReplacing(cache, i, acc) ==
    IF i > Len(cache) THEN acc
    ELSE ShardReplacing(cache, i + 1,
             DictSet(acc, ShardName(cache[i].key),
                     <<[key |-> cache[i].key, val |-> cache[i].val]>>))

ShardLosing(cache) == ShardReplacing(cache, 1, <<>>)

Shard(cache) == ShardFrom(cache, 1, <<>>)

\* -------------------------------------------------------------- state
VARIABLES
    catalog,              \* the Catalog table stock_profiles (external)
    source,               \* the Quote Source: symbol -> raw candle table (external)
    ledger,               \* the Ledger table stock_prices (external)
    pc,                   \* position of fetch_and_store
    start,                \* offset of the next Catalog page
    all_stocks,           \* profiles read so far
    offset,               \* position of the chunks() generator
    batch,                \* the current chunk
    data,                 \* the Quote Source's answer for the current chunk
    payload,              \* data points of the current chunk
    idx,                  \* position of the symbol loop in batch
    latest_prices_cache,  \* data points of the run
    history_cache,        \* dict symbol -> chart payload
    total_upserted,
    shards,               \* dict shard_name -> dict symbol -> chart payload
    latest_json,          \* the file latest_prices.json
    shard_json,           \* the files <shard_name>.json, in writing order
    pruned,               \* outcome of the delete_old_prices call
    exit,                 \* how the chunk loop ended
    requested,            \* history: the chunks sent to the Quote Source
    dropped,              \* history: symbols of the chunks whose download failed
    raised,               \* history: symbols whose processing raised
    submitted,            \* history: the rows handed to upsert calls
    prior,                \* history: the Ledger as the run found it
    made,                 \* history: data points and chart payloads built
    env,                  \* os.environ: SUPABASE_URL and SUPABASE_KEY (external)
    delayed,              \* history: time.sleep ran since the last Quote Source call
    master_list,          \* seeder.py: the profiles to upload
    batch_start,          \* seeder.py: the loop variable i of seed_database
    uploads               \* history: the batches handed to the Catalog upsert

vars ==
    <<catalog, source, ledger, pc, start, all_stocks, offset, batch, data, payload,
      idx, latest_prices_cache, history_cache, total_upserted, shards, latest_json,
      shard_json, pruned, exit, requested, dropped, raised, submitted, prior, made,
      env, delayed, master_list, batch_start, uploads>>

external == <<catalog, source, prior, env>>
seeder == <<master_list, batch_start, uploads>>
locals == <<batch, data, payload, idx>>
outputs == <<latest_json, shard_json, pruned, shards>>

\* symbol_list and metadata_map (lines 62-63).
SymbolList(stocks) == [i \in 1..Len(stocks) |-> stocks[i].symbol]

MetadataMap(stocks, symbol) ==
    stocks[CHOOSE i \in 1..Len(stocks) :
             /\ stocks[i].symbol = symbol
             /\ \A j \in (i + 1)..Len(stocks) : stocks[j].symbol # symbol]

\* The chunk at position i, were the slice to include its end index.
ChunkAtInclusive(lst, n, i) == SubSeq(lst, i + 1, Min(i + n + 1, Len(lst)))

\* chunks(lst, n) (lines 24-27): the chunk the generator yields at position i.
ChunkAt(lst, n, i) == SubSeq(lst, i + 1, Min(i + n, Len(lst)))

\* The positions of the chunk loop, where an interrupt can arrive.
LoopPcs == {"chunk", "download", "symbol", "chart", "sleep"}

\* The Quote Sources of a Catalog: one table, or none, for each symbol.
Sources(cat, tables) ==
    UNION {[S -> tables] : S \in SUBSET Range(SymbolList(cat))}

\* A row an earlier run stored for the candle this run reads again: the
\* same key, the price of an earlier poll.
Earlier(row) ==
    [row EXCEPT !.price = row.price - 1, !.change_value = row.change_value - 1]

\* The Ledgers a run can start on: empty, or holding the row of the first
\* profile's last candle as this run or an earlier poll computes it.
PriorLedgers(cat, src) ==
    IF cat # <<>> /\ cat[1].symbol \in DOMAIN src /\ DropNa(src[cat[1].symbol]) # <<>>
    THEN LET row == DbRow(DataPoint(cat[1].symbol, cat[1], DropNa(src[cat[1].symbol])))
         IN  {{}, {row}, {Earlier(row)}}
    ELSE {{}}

NoFile == [state |-> "absent", content |-> <<>>]

\* os.environ.get(name) is None when the variable is not set, and its
\* string otherwise; the string can be empty.
Str(x) == [str |-> x]

Envs ==
    [SUPABASE_URL : {None, Str(""), Str("url")},
     SUPABASE_KEY : {None, Str(""), Str("key")}]

\* not SUPABASE_URL or not SUPABASE_KEY (line 19): None and "" are falsy.
Missing(e) ==
    \/ e.SUPABASE_URL \in {None, Str("")}
    \/ e.SUPABASE_KEY \in {None, Str("")}

Init ==
    /\ catalog \in Catalogs
    /\ source \in Sources(catalog, PipelineTables)
    /\ ledger \in PriorLedgers(catalog, source)
    /\ prior = ledger
    /\ env \in Envs
    /\ pc = "config"
    /\ start = 0
    /\ all_stocks = <<>>
    /\ offset = 0
    /\ batch = <<>>
    /\ data = <<>>
    /\ payload = <<>>
    /\ idx = 1
    /\ latest_prices_cache = <<>>
    /\ history_cache = <<>>
    /\ total_upserted = 0
    /\ shards = <<>>
    /\ latest_json = NoFile
    /\ shard_json = <<>>
    /\ pruned = "no"
    /\ exit = "running"
    /\ requested = <<>>
    /\ dropped = {}
    /\ raised = {}
    /\ submitted = {}
    /\ made = [points |-> {}, charts |-> {}]
    /\ delayed = FALSE
    /\ master_list = <<>>
    /\ batch_start = 0
    /\ uploads = <<>>

\* ------------------------------------------- 0. the module-level check
\* The settings are checked and fetch_and_store is entered, were the check
\* of line 19 not there.
ConfigureUnchecked ==
    /\ pc = "config"
    /\ pc' = "profiles"
    /\ UNCHANGED <<external, seeder, delayed, ledger, start, all_stocks, offset, locals,
                   latest_prices_cache, history_cache, total_upserted, outputs, exit,
                   requested, dropped, raised, submitted, made>>

\* Lines 11-22 and 237-238: both settings are present, the client is
\* created and fetch_and_store is entered.
Configure ==
    /\ pc = "config"
    /\ ~Missing(env)
    /\ pc' = "profiles"
    /\ UNCHANGED <<external, seeder, delayed, ledger, start, all_stocks, offset, locals,
                   latest_prices_cache, history_cache, total_upserted, outputs, exit,
                   requested, dropped, raised, submitted, made>>

\* Lines 19-20 (seeder.py 11-12): a setting is missing and ValueError is
\* raised while the module loads; nothing below the check runs.
ConfigureRaises ==
    /\ pc = "config"
    /\ Missing(env)
    /\ pc' = "raised"
    /\ UNCHANGED <<external, seeder, delayed, ledger, start, all_stocks, offset, locals,
                   latest_prices_cache, history_cache, total_upserted, outputs, exit,
                   requested, dropped, raised, submitted, made>>

\* ------------------------------------------- 1. the Catalog read loop
\* The page, were the window .range(start, start + fetch_size).
PageInclusive(cat, from) == SubSeq(cat, from + 1, Min(from + fetch_size + 1, Len(cat)))

\* .range(start, start + fetch_size - 1) on the Catalog table.
Page(cat, from) == SubSeq(cat, from + 1, Min(from + fetch_size, Len(cat)))

\* Lines 43-48: the profile built from one row.
Profile(r) == [symbol |-> r.symbol, company_name |-> r.company_name, market |-> r.market]

\* Lines 40-49: a page with rows is appended and the offset advances.
ReadPage ==
    /\ pc = "profiles"
    /\ Page(catalog, start) # <<>>
    /\ all_stocks' = all_stocks \o [i \in 1..Len(Page(catalog, start)) |->
                                      Profile(Page(catalog, start)[i])]
    /\ start' = start + fetch_size
    /\ UNCHANGED <<external, seeder, delayed, ledger, pc, offset, locals, latest_prices_cache,
                   history_cache, total_upserted, outputs, exit, requested, dropped,
                   raised, submitted, made>>

\* Line 42: an empty page ends the loop.
ReadEmptyPage ==
    /\ pc = "profiles"
    /\ Page(catalog, start) = <<>>
    /\ pc' = "chunk"
    /\ UNCHANGED <<external, seeder, delayed, ledger, start, all_stocks, offset, locals,
                   latest_prices_cache, history_cache, total_upserted, outputs, exit,
                   requested, dropped, raised, submitted, made>>

\* Lines 50-52: a read that raises ends the loop with what was read.
ReadPageFails ==
    /\ pc = "profiles"
    /\ pc' = "chunk"
    /\ UNCHANGED <<external, seeder, delayed, ledger, start, all_stocks, offset, locals,
                   latest_prices_cache, history_cache, total_upserted, outputs, exit,
                   requested, dropped, raised, submitted, made>>

\* ------------------------------------------------- 2. the chunk loop
\* Line 66: the generator yields the next chunk.
NextChunk ==
    /\ pc = "chunk"
    /\ offset < Len(all_stocks)
    /\ batch' = ChunkAt(SymbolList(all_stocks), BATCH_SIZE, offset)
    /\ offset' = offset + BATCH_SIZE
    /\ pc' = "download"
    /\ UNCHANGED <<external, seeder, delayed, ledger, start, all_stocks, data, payload, idx,
                   latest_prices_cache, history_cache, total_upserted, outputs, exit,
                   requested, dropped, raised, submitted, made>>

\* Line 66: the generator is exhausted; control falls into the finally block.
LoopEnd ==
    /\ pc = "chunk"
    /\ offset >= Len(all_stocks)
    /\ exit' = "completed"
    /\ pc' = "finally"
    /\ UNCHANGED <<external, seeder, delayed, ledger, start, all_stocks, offset, locals,
                   latest_prices_cache, history_cache, total_upserted, outputs,
                   requested, dropped, raised, submitted, made>>

\* Lines 68-82: yf.download answers with the tables of the symbols it knows.
Download ==
    /\ pc = "download"
    /\ data' = [s \in DOMAIN source \cap Range(batch) |-> source[s]]
    /\ payload' = <<>>
    /\ idx' = 1
    /\ delayed' = FALSE
    /\ requested' = Append(requested, batch)
    /\ pc' = "symbol"
    /\ UNCHANGED <<external, seeder, ledger, start, all_stocks, offset, batch,
                   latest_prices_cache, history_cache, total_upserted, outputs, exit,
                   dropped, raised, submitted, made>>

\* A failing download, were there no handler around the chunk: the
\* exception leaves the loop.
DownloadFailsUncaught ==
    /\ pc = "download"
    /\ delayed' = FALSE
    /\ requested' = Append(requested, batch)
    /\ dropped' = dropped \cup Range(batch)
    /\ batch' = <<>>
    /\ exit' = "crashed"
    /\ pc' = "finally"
    /\ UNCHANGED <<external, seeder, ledger, start, all_stocks, offset, data, payload, idx,
                   latest_prices_cache, history_cache, total_upserted, outputs,
                   raised, submitted, made>>

\* Lines 72-80 raise; lines 179-180 catch and the loop goes on.
DownloadFails ==
    /\ pc = "download"
    /\ delayed' = FALSE
    /\ requested' = Append(requested, batch)
    /\ dropped' = dropped \cup Range(batch)
    /\ batch' = <<>>
    /\ pc' = "chunk"
    /\ UNCHANGED <<external, seeder, ledger, start, all_stocks, offset, data, payload, idx,
                   latest_prices_cache, history_cache, total_upserted, outputs, exit,
                   raised, submitted, made>>

\* stock_df of batch[idx] before dropna (lines 88-93); <<>> is the empty frame.
RawFrame ==
    IF batch[idx] \in DOMAIN data THEN data[batch[idx]] ELSE <<>>

\* stock_df after line 94.
StockDf == DropNa(RawFrame)

\* The step, were the data point appended to the chunk's payload only and
\* not to the snapshot list.
SnapshotUncached ==
    /\ pc = "symbol"
    /\ idx <= Len(batch)
    /\ IF StockDf = <<>>
       THEN /\ idx' = idx + 1
            /\ UNCHANGED <<pc, payload, made>>
       ELSE LET data_point ==
                    DataPoint(batch[idx], MetadataMap(all_stocks, batch[idx]), StockDf)
            IN  /\ payload' = Append(payload, data_point)
                /\ made' = [made EXCEPT !.points = @ \cup {data_point}]
                /\ pc' = "chart"
                /\ UNCHANGED idx
    /\ UNCHANGED <<external, seeder, delayed, ledger, start, all_stocks, offset, batch,
                   data, latest_prices_cache, history_cache, total_upserted, outputs, exit,
                   requested, dropped, raised, submitted>>

\* The step, were a symbol without candles to end the symbol loop of its
\* chunk instead of being skipped.
SnapshotAborting ==
    /\ pc = "symbol"
    /\ idx <= Len(batch)
    /\ IF StockDf = <<>>
       THEN /\ idx' = Len(batch) + 1
            /\ UNCHANGED <<pc, payload, latest_prices_cache, made>>
       ELSE LET data_point ==
                    DataPoint(batch[idx], MetadataMap(all_stocks, batch[idx]), StockDf)
            IN  /\ payload' = Append(payload, data_point)
                /\ latest_prices_cache' = Append(latest_prices_cache, data_point)
                /\ made' = [made EXCEPT !.points = @ \cup {data_point}]
                /\ pc' = "chart"
                /\ UNCHANGED idx
    /\ UNCHANGED <<external, seeder, delayed, ledger, start, all_stocks, offset, batch,
                   data, history_cache, total_upserted, outputs, exit, requested, dropped,
                   raised, submitted>>

\* Lines 86-131: the symbol is skipped (a continue of lines 90-95), or its
\* data point is appended to payload and to latest_prices_cache.
Snapshot ==
    /\ pc = "symbol"
    /\ idx <= Len(batch)
    /\ IF StockDf = <<>>
       THEN /\ idx' = idx + 1
            /\ UNCHANGED <<pc, payload, latest_prices_cache, made>>
       ELSE LET data_point ==
                    DataPoint(batch[idx], MetadataMap(all_stocks, batch[idx]), StockDf)
            IN  /\ payload' = Append(payload, data_point)
                /\ latest_prices_cache' = Append(latest_prices_cache, data_point)
                /\ made' = [made EXCEPT !.points = @ \cup {data_point}]
                /\ pc' = "chart"
                /\ UNCHANGED idx
    /\ UNCHANGED <<external, seeder, delayed, ledger, start, all_stocks, offset, batch, data,
                   history_cache, total_upserted, outputs, exit, requested, dropped,
                   raised, submitted>>

\* Lines 86-128 raise; lines 159-160 catch and the symbol loop goes on.
SnapshotRaises ==
    /\ pc = "symbol"
    /\ idx <= Len(batch)
    /\ raised' = raised \cup {batch[idx]}
    /\ idx' = idx + 1
    /\ UNCHANGED <<external, seeder, delayed, ledger, pc, start, all_stocks, offset, batch, data,
                   payload, latest_prices_cache, history_cache, total_upserted, outputs,
                   exit, requested, dropped, submitted, made>>

\* Lines 137-157: the chart payload of the symbol is stored.
Chart ==
    /\ pc = "chart"
    /\ history_cache' = DictSet(history_cache, batch[idx], ChartPayload(StockDf))
    /\ made' = [made EXCEPT !.charts = @ \cup
                   {[key |-> batch[idx], val |-> ChartPayload(StockDf)]}]
    /\ idx' = idx + 1
    /\ pc' = "symbol"
    /\ UNCHANGED <<external, seeder, delayed, ledger, start, all_stocks, offset, batch, data, payload,
                   latest_prices_cache, total_upserted, outputs, exit, requested,
                   dropped, raised, submitted>>

\* Lines 137-157 raise; lines 159-160 catch and the symbol loop goes on.
ChartRaises ==
    /\ pc = "chart"
    /\ raised' = raised \cup {batch[idx]}
    /\ idx' = idx + 1
    /\ pc' = "symbol"
    /\ UNCHANGED <<external, seeder, delayed, ledger, start, all_stocks, offset, batch, data, payload,
                   latest_prices_cache, history_cache, total_upserted, outputs, exit,
                   requested, dropped, submitted, made>>

\* Line 163: an empty payload skips the upsert.
NoUpsert ==
    /\ pc = "symbol"
    /\ idx > Len(batch)
    /\ payload = <<>>
    /\ pc' = "sleep"
    /\ batch' = <<>>
    /\ data' = <<>>
    /\ idx' = 1
    /\ UNCHANGED <<external, seeder, delayed, ledger, start, all_stocks, offset, payload,
                   latest_prices_cache, history_cache, total_upserted, outputs, exit,
                   requested, dropped, raised, submitted, made>>

\* Lines 163-175: the rows of the chunk are upserted.
Upsert ==
    /\ pc = "symbol"
    /\ idx > Len(batch)
    /\ payload # <<>>
    /\ ledger' = LedgerUpsert(ledger, DbPayload(payload))
    /\ submitted' = submitted \cup Range(DbPayload(payload))
    /\ total_upserted' = total_upserted + Len(payload)
    /\ pc' = "sleep"
    /\ batch' = <<>>
    /\ data' = <<>>
    /\ payload' = <<>>
    /\ idx' = 1
    /\ UNCHANGED <<external, seeder, delayed, start, all_stocks, offset, latest_prices_cache,
                   history_cache, outputs, exit, requested, dropped, raised, made>>

\* Lines 172-174 raise; lines 179-180 catch and the loop goes on.
UpsertFails ==
    /\ pc = "symbol"
    /\ idx > Len(batch)
    /\ payload # <<>>
    /\ submitted' = submitted \cup Range(DbPayload(payload))
    /\ pc' = "chunk"
    /\ batch' = <<>>
    /\ data' = <<>>
    /\ payload' = <<>>
    /\ idx' = 1
    /\ UNCHANGED <<external, seeder, delayed, ledger, start, all_stocks, offset, latest_prices_cache,
                   history_cache, total_upserted, outputs, exit, requested, dropped,
                   raised, made>>

\* Line 177.
Sleep ==
    /\ pc = "sleep"
    /\ delayed' = TRUE
    /\ pc' = "chunk"
    /\ UNCHANGED <<external, seeder, ledger, start, all_stocks, offset, locals,
                   latest_prices_cache, history_cache, total_upserted, outputs, exit,
                   requested, dropped, raised, submitted, made>>

\* Leaving the chunk loop, were the saving not in a finally block: the
\* exception ends the run.
LeaveUnsaved(how) ==
    /\ pc \in LoopPcs
    /\ exit' = how
    /\ pc' = "done"
    /\ batch' = <<>>
    /\ data' = <<>>
    /\ payload' = <<>>
    /\ idx' = 1
    /\ UNCHANGED <<external, seeder, delayed, ledger, start, all_stocks, offset, latest_prices_cache,
                   history_cache, total_upserted, outputs, requested, dropped, raised,
                   submitted, made>>

\* Leaving the chunk loop on an exception: control reaches the finally block
\* with the accumulators as they are.
Leave(how) ==
    /\ pc \in LoopPcs
    /\ exit' = how
    /\ pc' = "finally"
    /\ batch' = <<>>
    /\ data' = <<>>
    /\ payload' = <<>>
    /\ idx' = 1
    /\ UNCHANGED <<external, seeder, delayed, ledger, start, all_stocks, offset, latest_prices_cache,
                   history_cache, total_upserted, outputs, requested, dropped, raised,
                   submitted, made>>

\* Lines 182-183: KeyboardInterrupt arrives anywhere in the loop.
Interrupt == Leave("interrupted")

\* Lines 184-185, or an exception that is no Exception: the loop is left by
\* an exception the chunk's handler does not catch.
Crash == Leave("crashed")

\* ------------------------------------------------ 3. the finally block
Written(content) == [state |-> "written", content |-> content]
Failed == [state |-> "failed", content |-> <<>>]

\* Where the finally block stands: before the snapshot file (line 191),
\* before the sharding loop (line 200), before the next shard file (line
\* 218), and before the prune call (line 231).
AtSaveLatest == pc = "finally"
AtBuildShards == pc = "shard"
AtSaveShard == pc = "save" /\ Len(shard_json) < Len(shards)
AtPrune == pc = "save" /\ Len(shard_json) = Len(shards)

\* Lines 191-194: latest_prices.json is written.
SaveLatest ==
    /\ AtSaveLatest
    /\ latest_json' = Written(latest_prices_cache)
    /\ pc' = "shard"
    /\ UNCHANGED <<external, seeder, delayed, ledger, start, all_stocks, offset, locals,
                   latest_prices_cache, history_cache, total_upserted, shards,
                   shard_json, pruned, exit, requested, dropped, raised, submitted, made>>

\* Lines 195-196: the write raises and the error is printed.
SaveLatestFails ==
    /\ AtSaveLatest
    /\ latest_json' = Failed
    /\ pc' = "shard"
    /\ UNCHANGED <<external, seeder, delayed, ledger, start, all_stocks, offset, locals,
                   latest_prices_cache, history_cache, total_upserted, shards,
                   shard_json, pruned, exit, requested, dropped, raised, submitted, made>>

\* Lines 200-215: the shards are built.
BuildShards ==
    /\ AtBuildShards
    /\ shards' = Shard(history_cache)
    /\ pc' = "save"
    /\ UNCHANGED <<external, seeder, delayed, ledger, start, all_stocks, offset, locals,
                   latest_prices_cache, history_cache, total_upserted, latest_json,
                   shard_json, pruned, exit, requested, dropped, raised, submitted, made>>

\* Lines 218-223: the next shard file is written.
SaveShard ==
    /\ AtSaveShard
    /\ shard_json' = Append(shard_json,
                            [key |-> shards[Len(shard_json) + 1].key,
                             val |-> Written(shards[Len(shard_json) + 1].val)])
    /\ UNCHANGED <<external, seeder, delayed, ledger, pc, start, all_stocks, offset, locals,
                   latest_prices_cache, history_cache, total_upserted, shards,
                   latest_json, pruned, exit, requested, dropped, raised, submitted, made>>

\* A failing shard write, were there no handler around it: the exception
\* leaves the finally block.
SaveShardFailsUncaught ==
    /\ AtSaveShard
    /\ shard_json' = Append(shard_json,
                            [key |-> shards[Len(shard_json) + 1].key, val |-> Failed])
    /\ pc' = "done"
    /\ UNCHANGED <<external, seeder, delayed, ledger, start, all_stocks, offset, locals,
                   latest_prices_cache, history_cache, total_upserted, shards,
                   latest_json, pruned, exit, requested, dropped, raised, submitted, made>>

\* Lines 224-225: the write raises and the error is printed.
SaveShardFails ==
    /\ AtSaveShard
    /\ shard_json' = Append(shard_json,
                            [key |-> shards[Len(shard_json) + 1].key, val |-> Failed])
    /\ UNCHANGED <<external, seeder, delayed, ledger, pc, start, all_stocks, offset, locals,
                   latest_prices_cache, history_cache, total_upserted, shards,
                   latest_json, pruned, exit, requested, dropped, raised, submitted, made>>

\* Lines 231-232: the prune call delete_old_prices is issued.
Prune ==
    /\ AtPrune
    /\ pruned' = "yes"
    /\ pc' = "done"
    /\ UNCHANGED <<external, seeder, delayed, ledger, start, all_stocks, offset, locals,
                   latest_prices_cache, history_cache, total_upserted, shards,
                   latest_json, shard_json, exit, requested, dropped, raised,
                   submitted, made>>

\* Line 233: the prune call raises and the error is dropped.
PruneFails ==
    /\ AtPrune
    /\ pruned' = "failed"
    /\ pc' = "done"
    /\ UNCHANGED <<external, seeder, delayed, ledger, start, all_stocks, offset, locals,
                   latest_prices_cache, history_cache, total_upserted, shards,
                   latest_json, shard_json, exit, requested, dropped, raised,
                   submitted, made>>

\* ------------------------------------------------------ specifications
Next ==
    \/ Configure
    \/ ConfigureRaises
    \/ ReadPage
    \/ ReadEmptyPage
    \/ ReadPageFails
    \/ NextChunk
    \/ LoopEnd
    \/ Download
    \/ DownloadFails
    \/ Snapshot
    \/ SnapshotRaises
    \/ Chart
    \/ ChartRaises
    \/ NoUpsert
    \/ Upsert
    \/ UpsertFails
    \/ Sleep
    \/ Interrupt
    \/ Crash
    \/ SaveLatest
    \/ SaveLatestFails
    \/ BuildShards
    \/ SaveShard
    \/ SaveShardFails
    \/ Prune
    \/ PruneFails

\* A run of fetch_and_store.
Spec == Init /\ [][Next]_vars

\* A run of fetch_and_store that keeps taking steps: Python runs the next
\* statement until the function returns.
FairSpec == Spec /\ WF_vars(Next)

\* The symbol loop of a one-symbol chunk, for every raw candle table the
\* Quote Source can answer with (rows in increasing timestamp order, or no
\* table at all): the state after line 82.
SeriesInit ==
    /\ catalog = SubSeq(Listing, 1, 1)
    /\ \/ source = <<>>
       \/ \E S \in StampSets : \E kind \in [S -> Kinds] :
              source = [s \in {catalog[1].symbol} |-> SortedRows(S, kind)]
    /\ ledger = {}
    /\ prior = {}
    /\ pc = "symbol"
    /\ start = fetch_size
    /\ all_stocks = [i \in 1..1 |-> Profile(catalog[i])]
    /\ offset = BATCH_SIZE
    /\ batch = SymbolList(all_stocks)
    /\ data = source
    /\ payload = <<>>
    /\ idx = 1
    /\ latest_prices_cache = <<>>
    /\ history_cache = <<>>
    /\ total_upserted = 0
    /\ shards = <<>>
    /\ latest_json = NoFile
    /\ shard_json = <<>>
    /\ pruned = "no"
    /\ exit = "running"
    /\ requested = <<batch>>
    /\ dropped = {}
    /\ raised = {}
    /\ submitted = {}
    /\ made = [points |-> {}, charts |-> {}]
    /\ env = [SUPABASE_URL |-> Str("url"), SUPABASE_KEY |-> Str("key")]
    /\ delayed = FALSE
    /\ master_list = <<>>
    /\ batch_start = 0
    /\ uploads = <<>>

SeriesNext == Snapshot \/ SnapshotRaises \/ Chart \/ ChartRaises

SeriesSpec == SeriesInit /\ [][SeriesNext]_vars

\* ------------------------------------------- seeder.py: seed_database
\* The profiles the fetchers of seeder.py can put on the master list: two
\* symbols, one of them listed under two company names.
Pool ==
    {Listing[1], Listing[2], [Listing[1] EXCEPT !.company_name = "Alpha Inc"]}

\* master_list after line 157.
MasterLists == UNION {[1..n -> Pool] : n \in 0..MaxMaster}

\* master_list[i:i + chunk_size] (line 164).
Slice(lst, i) == SubSeq(lst, i + 1, Min(i + chunk_size, Len(lst)))

\* upsert(chunk, on_conflict="symbol") on the table stock_profiles (line
\* 166): a row whose symbol is stored replaces the stored row, any other row
\* is added at the end of the table.
RECURSIVE CatalogUpsert(_, _)
CatalogUpsert(table, rows) ==
    IF rows = <<>> THEN table
    ELSE LET r == Head(rows)
             hit == {k \in 1..Len(table) : table[k].symbol = r.symbol}
             put == IF hit = {} THEN Append(table, r)
                    ELSE [k \in 1..Len(table) |-> IF k \in hit THEN r ELSE table[k]]
         IN  CatalogUpsert(put, Tail(rows))

\* One statement cannot upsert two rows of one symbol: the store rejects
\* such a batch.
Accepted(chunk) ==
    \A j \in 1..Len(chunk) : \A k \in 1..Len(chunk) :
        chunk[j].symbol = chunk[k].symbol => j = k

\* What seed_database leaves alone.
scraper ==
    <<source, ledger, prior, env, start, all_stocks, offset, locals,
      latest_prices_cache, history_cache, total_upserted, outputs, exit, requested,
      dropped, raised, submitted, made, delayed>>

\* seeder.py lines 8-14 and 173-174: both settings are present, the client
\* is created and seed_database is entered.
SeederConfigure ==
    /\ pc = "config"
    /\ ~Missing(env)
    /\ pc' = "seed"
    /\ UNCHANGED <<catalog, scraper, seeder>>

\* A failing upload, were there no handler around it: the exception leaves
\* the loop.
UploadFailsUncaught ==
    /\ pc = "seed"
    /\ batch_start < Len(master_list)
    /\ uploads' = Append(uploads, [chunk |-> Slice(master_list, batch_start), ok |-> FALSE])
    /\ pc' = "seeded"
    /\ UNCHANGED <<catalog, scraper, master_list, batch_start>>

\* seeder.py lines 163-167: the next batch is upserted into the Catalog.
Upload ==
    /\ pc = "seed"
    /\ batch_start < Len(master_list)
    /\ Accepted(Slice(master_list, batch_start))
    /\ catalog' = CatalogUpsert(catalog, Slice(master_list, batch_start))
    /\ uploads' = Append(uploads, [chunk |-> Slice(master_list, batch_start), ok |-> TRUE])
    /\ batch_start' = batch_start + chunk_size
    /\ UNCHANGED <<scraper, pc, master_list>>

\* seeder.py lines 168-169: the upsert raises, the error is printed and the
\* loop goes on.
UploadFails ==
    /\ pc = "seed"
    /\ batch_start < Len(master_list)
    /\ uploads' = Append(uploads, [chunk |-> Slice(master_list, batch_start), ok |-> FALSE])
    /\ batch_start' = batch_start + chunk_size
    /\ UNCHANGED <<catalog, scraper, pc, master_list>>

\* seeder.py lines 163 and 171: range() is exhausted.
SeedEnd ==
    /\ pc = "seed"
    /\ batch_start >= Len(master_list)
    /\ pc' = "seeded"
    /\ UNCHANGED <<catalog, scraper, seeder>>

\* A run of seeder.py on any Catalog table and any master list.
SeederInit ==
    /\ catalog \in Catalogs
    /\ source = <<>>
    /\ ledger = {}
    /\ prior = {}
    /\ env \in Envs
    /\ pc = "config"
    /\ start = 0
    /\ all_stocks = <<>>
    /\ offset = 0
    /\ batch = <<>>
    /\ data = <<>>
    /\ payload = <<>>
    /\ idx = 1
    /\ latest_prices_cache = <<>>
    /\ history_cache = <<>>
    /\ total_upserted = 0
    /\ shards = <<>>
    /\ latest_json = NoFile
    /\ shard_json = <<>>
    /\ pruned = "no"
    /\ exit = "running"
    /\ requested = <<>>
    /\ dropped = {}
    /\ raised = {}
    /\ submitted = {}
    /\ made = [points |-> {}, charts |-> {}]
    /\ delayed = FALSE
    /\ master_list \in MasterLists
    /\ batch_start = 0
    /\ uploads = <<>>

SeederNext ==
    \/ SeederConfigure
    \/ ConfigureRaises
    \/ Upload
    \/ UploadFails
    \/ SeedEnd

SeederSpec == SeederInit /\ [][SeederNext]_vars

\* ------------------------------------------------------------- claims
SnapshotSymbols == {latest_prices_cache[i].symbol : i \in 1..Len(latest_prices_cache)}

\* The chunks of a list, in order.
AllChunks(lst) ==
    [k \in 1..((Len(lst) + BATCH_SIZE - 1) \div BATCH_SIZE) |->
       ChunkAt(lst, BATCH_SIZE, (k - 1) * BATCH_SIZE)]

\* The raw candles of a symbol that carry a close.
Usable(symbol) ==
    IF symbol \in DOMAIN source THEN DropNa(source[symbol]) ELSE <<>>

\* What the finally block wrote holds every data point and every chart
\* payload the loop built: the snapshot file was attempted and, when its
\* write did not raise, holds every data point; the shard file of every
\* chart payload was attempted and, when its write did not raise, holds the
\* payload under its symbol.
Preserved ==
    /\ latest_json.state # "absent"
    /\ latest_json.state = "written" => made.points \subseteq Range(latest_json.content)
    /\ \A c \in made.charts :
         \E i \in 1..Len(shard_json) :
            /\ shard_json[i].key = ShardName(c.key)
            /\ shard_json[i].val.state = "written" =>
                 /\ c.key \in Keys(shard_json[i].val.content)
                 /\ Get(shard_json[i].val.content, c.key) = c.val

\* The steps the finally block has left to take.
Remaining ==
    CASE pc = "finally" -> Len(history_cache) + 3
      [] pc = "shard" -> Len(history_cache) + 2
      [] pc = "save" -> Len(shards) - Len(shard_json) + 1
      [] OTHER -> 0

\* C1: however the chunk loop ends (completed, interrupted, or left by an
\* exception), the finally block runs to its end: from the exit on, a step
\* of the block can be taken in every state before the end and every step
\* brings the end closer; and at the end, what was written holds every data
\* point and every chart payload built before the exit.
C1_PersistenceAlwaysRuns ==
    /\ [](exit # "running" => pc \in {"finally", "shard", "save", "done"})
    /\ [](exit # "running" /\ pc # "done" =>
            AtSaveLatest \/ AtBuildShards \/ AtSaveShard \/ AtPrune)
    /\ [][exit # "running" => Remaining' < Remaining /\ Remaining' >= 0]_vars
    /\ [](pc = "done" => exit # "running" /\ Preserved)

C1_Witness ==
    /\ pc = "done"
    /\ exit = "crashed"
    /\ latest_json.state = "written"
    /\ Len(latest_json.content) >= 2
    /\ made.charts # {}
    /\ \A i \in 1..Len(shard_json) : shard_json[i].val.state = "written"

\* C2: a failing Quote Source call is caught: the step leaves the snapshot
\* list and the chart map as they were and the loop goes on to the next
\* chunk; no symbol of the failed chunk has a snapshot or a chart payload;
\* and a loop that runs to completion has requested every chunk, in order,
\* and has a snapshot for every symbol with usable candles whose chunk did not
\* fail and whose processing did not raise.
C2_ChunkFailureIsolated ==
    /\ [][(pc = "download" /\ dropped' # dropped) =>
            /\ latest_prices_cache' = latest_prices_cache
            /\ history_cache' = history_cache
            /\ exit' = exit
            /\ pc' = "chunk"
            /\ offset' = offset]_vars
    /\ [](\A s \in dropped : s \notin SnapshotSymbols /\ s \notin Keys(history_cache))
    /\ [](exit = "completed" =>
            /\ requested = AllChunks(SymbolList(all_stocks))
            /\ \A s \in Range(SymbolList(all_stocks)) \ (dropped \cup raised) :
                 Usable(s) # <<>> => s \in SnapshotSymbols)

C2_Witness ==
    /\ pc = "done"
    /\ exit = "completed"
    /\ Len(requested) = 2
    /\ dropped = Range(requested[1])
    /\ raised = {}
    /\ SnapshotSymbols = Range(requested[2])

\* C3: a symbol whose processing raised is in neither the snapshot list nor
\* the chart map.
C3_RaisedSymbolExcluded ==
    \A s \in raised : s \notin SnapshotSymbols /\ s \notin Keys(history_cache)

\* C4: at the end of a run, the row of every snapshot in the written
\* snapshot cache was handed to the Ledger in an upsert call.
C4_CachedRowsSubmitted ==
    (pc = "done" /\ latest_json.state = "written") =>
        \A i \in 1..Len(latest_json.content) :
            DbRow(latest_json.content[i]) \in submitted

\* C5: the Ledger never holds two rows with one (symbol, recorded_at); an
\* upsert stores every row as submitted (a row of a stored key replaces the
\* stored row), keeps every row of another key, and submitting the same
\* batch again leaves the stored rows as they are.
C5_UpsertIdempotent ==
    /\ [](\A r \in ledger : \A q \in ledger : SameKey(r, q) => r = q)
    /\ [][total_upserted' # total_upserted =>
            LET rows == DbPayload(payload)
            IN  /\ Range(rows) \subseteq ledger'
                /\ \A r \in ledger :
                     (\A i \in 1..Len(rows) : ~SameKey(r, rows[i])) => r \in ledger'
                /\ ledger' \subseteq ledger \cup Range(rows)
                /\ LedgerUpsert(ledger', rows) = ledger']_vars
    /\ [][(total_upserted' # total_upserted /\ Range(DbPayload(payload)) \subseteq ledger)
            => ledger' = ledger]_vars

C5_Witness ==
    /\ total_upserted > 0
    /\ \E r \in prior : \E q \in ledger :
         SameKey(r, q) /\ r # q /\ q \in submitted /\ r \notin ledger

\* C7: the shards partition the chart map: every symbol of the map is in
\* exactly one shard, with its payload, and no shard holds another symbol.
C7_ShardsPartition ==
    pc \in {"save", "done"} =>
        /\ \A i \in 1..Len(history_cache) :
             \E k \in 1..Len(shards) :
                /\ history_cache[i].key \in Keys(shards[k].val)
                /\ Get(shards[k].val, history_cache[i].key) = history_cache[i].val
                /\ \A j \in 1..Len(shards) :
                     history_cache[i].key \in Keys(shards[j].val) => j = k
        /\ \A k \in 1..Len(shards) :
             /\ Keys(shards[k].val) \subseteq Keys(history_cache)
             /\ Len(shards[k].val) = Cardinality(Keys(shards[k].val))
        /\ UNION {Keys(shards[k].val) : k \in 1..Len(shards)} = Keys(history_cache)

C7_Witness ==
    /\ pc = "done"
    /\ Len(history_cache) = 3
    /\ Len(shards) = 2
    /\ \E k \in 1..Len(shards) : Len(shards[k].val) = 2

\* The shard name the specification gives a symbol, by its first character.
ExpectedShard(symbol) ==
    CASE symbol[1] \in {"A", "a"} -> "history_A"
      [] symbol[1] \in {"B"} -> "history_B"
      [] symbol[1] \in {"9", "^"} -> "history_0-9"

\* C8: a symbol is filed under "history_" and the uppercase of its first
\* character when that is a letter, under "history_0-9" otherwise, in every
\* run, whatever the other symbols and the order of processing.
C8_ShardNameBySymbol ==
    pc \in {"save", "done"} =>
        \A k \in 1..Len(shards) : \A s \in Keys(shards[k].val) :
            shards[k].key = ExpectedShard(s)

C8_Witness ==
    /\ pc = "done"
    /\ \E k \in 1..Len(shards) :
         shards[k].key = "history_A" /\ <<"a", "x">> \in Keys(shards[k].val)
    /\ \E k \in 1..Len(shards) : shards[k].key = "history_0-9"

\* The rows of a symbol's raw candle table that carry a close, the last
\* and the first of a set of rows, the rows of the session (the date of the
\* last row), and the rows of earlier dates.
Rows(symbol) == Range(Usable(symbol))

LastRow(rows) == CHOOSE r \in rows : \A q \in rows : q.ts <= r.ts

FirstRow(rows) == CHOOSE r \in rows : \A q \in rows : r.ts <= q.ts

SessionRows(symbol) ==
    {r \in Rows(symbol) : Date(r.ts) = Date(LastRow(Rows(symbol)).ts)}

EarlierRows(symbol) ==
    {r \in Rows(symbol) : Date(r.ts) < Date(LastRow(Rows(symbol)).ts)}

C9_ReferencePrice ==
    \A i \in 1..Len(latest_prices_cache) :
        LET point == latest_prices_cache[i]
            before == EarlierRows(point.symbol)
            ref == IF before # {} THEN LastRow(before).close.v
                   ELSE FirstRow(SessionRows(point.symbol)).open
        IN  /\ point.previous_close = Round2(ref)
            /\ point.change_value = Round2(LastRow(Rows(point.symbol)).close.v - ref)

C9_Witness ==
    \E i \in 1..Len(latest_prices_cache) :
        /\ EarlierRows(latest_prices_cache[i].symbol) # {}
        /\ Cardinality(SessionRows(latest_prices_cache[i].symbol)) = 2
        /\ latest_prices_cache[i].previous_close # 0

\* C10: the price of a snapshot is the last non-null entry of the symbol's
\* chart payload.
C10_PriceIsLastChartValue ==
    \A i \in 1..Len(latest_prices_cache) : \A k \in 1..Len(history_cache) :
        history_cache[k].key = latest_prices_cache[i].symbol =>
            LET prices == history_cache[k].val.p
                filled == {j \in 1..Len(prices) : prices[j] # None}
            IN  /\ filled # {}
                /\ prices[CHOOSE j \in filled : \A m \in filled : m <= j].v
                     = latest_prices_cache[i].price

\* The symbols in the written shard files.
FiledSymbols ==
    UNION {Keys(shard_json[k].val.content) : k \in 1..Len(shard_json)}

\* C11: a symbol the Quote Source does not answer for, or whose table has no
\* row with a close, is in neither the snapshot list nor the chart map nor
\* any shard; processing it is a skip to the next symbol of the chunk that
\* changes no output; and what the run holds for any other symbol is
\* computed from that symbol's own table alone, every symbol of the chunk
\* with usable candles whose processing did not raise having its data point
\* when the chunk's symbols are done.
C11_DeadSymbolSkipped ==
    /\ [](\A s \in Range(SymbolList(all_stocks)) :
            Usable(s) = <<>> =>
                /\ s \notin SnapshotSymbols
                /\ s \notin Keys(history_cache)
                /\ \A k \in 1..Len(shards) : s \notin Keys(shards[k].val)
                /\ s \notin FiledSymbols)
    /\ [][(pc = "symbol" /\ idx <= Len(batch) /\ StockDf = <<>>
             /\ raised' = raised /\ exit' = exit) =>
            /\ pc' = "symbol"
            /\ idx' = idx + 1
            /\ UNCHANGED <<batch, data, payload, latest_prices_cache, history_cache,
                           ledger, offset>>]_vars
    /\ [](\A i \in 1..Len(latest_prices_cache) :
            LET s == latest_prices_cache[i].symbol
            IN  latest_prices_cache[i] = DataPoint(s, MetadataMap(all_stocks, s), Usable(s)))
    /\ [](\A k \in 1..Len(history_cache) :
            history_cache[k].val = ChartPayload(Usable(history_cache[k].key)))
    /\ []((pc = "symbol" /\ idx > Len(batch)) =>
            \A s \in Range(batch) \ raised :
                Usable(s) # <<>> => \E i \in 1..Len(payload) : payload[i].symbol = s)

C11_Witness ==
    /\ pc = "done"
    /\ exit = "completed"
    /\ raised = {}
    /\ dropped = {}
    /\ \E s \in Range(SymbolList(all_stocks)) : s \notin DOMAIN source
    /\ \E s \in DOMAIN source : source[s] # <<>> /\ Usable(s) = <<>>
    /\ \E k \in 1..Len(requested) :
         /\ Len(requested[k]) = 2
         /\ Usable(requested[k][1]) = <<>>
         /\ requested[k][2] \in SnapshotSymbols \cap FiledSymbols

\* The reference price of a symbol with usable candles: the close of the
\* last row dated before the session, the open of the first row otherwise.
ReferencePrice(symbol) ==
    IF EarlierRows(symbol) # {} THEN LastRow(EarlierRows(symbol)).close.v
    ELSE FirstRow(Rows(symbol)).open

\* C12: the change_percent of a snapshot is 0 when the reference price is
\* 0, and otherwise the last close minus the reference price, divided by the
\* reference price, times 100 (rounded to two decimals at output); a symbol
\* with usable candles whose processing did not raise has its snapshot once
\* the snapshot step is past, whatever its reference price.
C12_ZeroGuard ==
    /\ \A i \in 1..Len(latest_prices_cache) :
         LET point == latest_prices_cache[i]
             ref == ReferencePrice(point.symbol)
             change == LastRow(Rows(point.symbol)).close.v - ref
         IN  /\ ref = 0 => point.change_percent = 0
             /\ ref # 0 => point.change_percent = RoundDiv(change * 10000, ref)
    /\ \A s \in Range(SymbolList(all_stocks)) :
         (Usable(s) # <<>> /\ s \notin raised /\ (pc = "chart" \/ idx > 1)) =>
             s \in SnapshotSymbols

C12_Witness ==
    \E i \in 1..Len(latest_prices_cache) :
        /\ ReferencePrice(latest_prices_cache[i].symbol) = 0
        /\ latest_prices_cache[i].change_value # 0
        /\ latest_prices_cache[i].change_percent = 0
        /\ latest_prices_cache[i].symbol \in Keys(history_cache)

\* C13: a failed write of the snapshot file is followed by the sharding, a
\* failed write of a shard file by the next shard file or the prune call,
\* and a failed prune call by the normal end of the run; at the end, the
\* snapshot file and every shard file were attempted, in order, each shard
\* file written holding its shard, and the prune call was issued.
C13_SaveFailuresContained ==
    /\ [][(latest_json' # latest_json /\ latest_json' = Failed) =>
            pc' = "shard" /\ exit' = exit /\ history_cache' = history_cache]_vars
    /\ [][(shard_json' # shard_json /\ shard_json'[Len(shard_json')].val = Failed) =>
            pc' = "save" /\ exit' = exit /\ shards' = shards]_vars
    /\ [][(pruned' # pruned /\ pruned' = "failed") =>
            pc' = "done" /\ exit' = exit /\ UNCHANGED <<latest_json, shard_json>>]_vars
    /\ [](pc = "done" =>
            /\ latest_json.state # "absent"
            /\ shards = Shard(history_cache)
            /\ Len(shard_json) = Len(shards)
            /\ \A k \in 1..Len(shard_json) :
                 /\ shard_json[k].key = shards[k].key
                 /\ shard_json[k].val.state = "written" =>
                      shard_json[k].val.content = shards[k].val
            /\ pruned \in {"yes", "failed"})

C13_Witness ==
    /\ pc = "done"
    /\ latest_json = Failed
    /\ Len(shard_json) = 2
    /\ shard_json[1].val = Failed
    /\ shard_json[2].val.state = "written"
    /\ shard_json[2].val.content # <<>>
    /\ pruned = "yes"

\* C14: when SUPABASE_URL or SUPABASE_KEY is missing (unset or empty), the
\* only step of the run is the raise of the module-level check: no Catalog
\* page is read, no chunk is requested from the Quote Source, no row is
\* handed to the Ledger, no file is written and no prune call is issued.
C14_MissingCredentialsStop ==
    /\ [](Missing(env) =>
            /\ pc \in {"config", "raised"}
            /\ start = 0
            /\ all_stocks = <<>>
            /\ requested = <<>>
            /\ submitted = {}
            /\ ledger = prior
            /\ latest_json = NoFile
            /\ shard_json = <<>>
            /\ pruned = "no")
    /\ [][(Missing(env) /\ pc = "config") => pc' = "raised"]_vars
    /\ [][pc # "raised"]_vars

C14_Witness ==
    /\ pc = "raised"
    /\ env.SUPABASE_URL = Str("url")
    /\ env.SUPABASE_KEY = Str("")
    /\ Len(catalog) >= 2
    /\ source # <<>>

\* The concatenation of a sequence of lists.
RECURSIVE Concat(_)
Concat(lists) ==
    IF lists = <<>> THEN <<>> ELSE Head(lists) \o Concat(Tail(lists))

\* The chunks the generator has yielded: those sent to the Quote Source and
\* the one about to be sent.
Yielded == IF pc = "download" THEN Append(requested, batch) ELSE requested

\* C15: every chunk yielded has between 1 and BATCH_SIZE symbols and every
\* chunk but the last exactly BATCH_SIZE; the chunks yielded so far,
\* concatenated in order, are the start of the symbol list, and all of it
\* when the loop completes, so that every symbol is then in exactly one
\* chunk; an empty list yields no chunk.
C15_ChunksPartition ==
    /\ \A k \in 1..Len(Yielded) :
         /\ Len(Yielded[k]) \in 1..BATCH_SIZE
         /\ k < Len(Yielded) => Len(Yielded[k]) = BATCH_SIZE
    /\ Len(Concat(Yielded)) <= Len(all_stocks)
    /\ Concat(Yielded) = SubSeq(SymbolList(all_stocks), 1, Len(Concat(Yielded)))
    /\ exit = "completed" =>
         /\ Concat(requested) = SymbolList(all_stocks)
         /\ \A s \in Range(SymbolList(all_stocks)) :
              Cardinality({k \in 1..Len(requested) : s \in Range(requested[k])}) = 1
         /\ all_stocks = <<>> => requested = <<>>

C15_Witness ==
    /\ exit = "completed"
    /\ Len(requested) = 2
    /\ Len(requested[1]) = BATCH_SIZE
    /\ Len(requested[2]) < BATCH_SIZE

\* The profiles of the Catalog rows from row a to row b.
ProfilesOf(a, b) == [i \in 1..(b - a + 1) |-> Profile(catalog[a + i - 1])]

\* C16: a page read advances the offset by fetch_size and appends the
\* profiles of the rows of that window, so the windows are consecutive and
\* do not overlap; the loop goes on only while rows are left, which bounds
\* its page reads, and ends at an empty page or a failed read with the list
\* as it is; the list is at every moment the Catalog's first rows, in
\* order, each once, and all the rows when the loop ends at an empty page.
C16_CatalogReadLoop ==
    /\ [](start % fetch_size = 0 /\ Len(all_stocks) = Min(start, Len(catalog)))
    /\ [](all_stocks = ProfilesOf(1, Len(all_stocks)))
    /\ [][start' # start =>
            /\ start' = start + fetch_size
            /\ all_stocks' =
                 all_stocks \o ProfilesOf(start + 1, Min(start + fetch_size, Len(catalog)))
            /\ Len(all_stocks') > Len(all_stocks)]_vars
    /\ [][(pc = "profiles" /\ pc' = "profiles") => start < Len(catalog) /\ start' > start]_vars
    /\ [](pc = "profiles" =>
            IF start < Len(catalog) THEN Page(catalog, start) # <<>>
            ELSE Page(catalog, start) = <<>>)
    /\ [][(pc = "profiles" /\ pc' # "profiles") =>
            /\ pc' = "chunk"
            /\ all_stocks' = all_stocks
            /\ Page(catalog, start) = <<>> => all_stocks = ProfilesOf(1, Len(catalog))]_vars
    /\ [][pc # "profiles" => all_stocks' = all_stocks /\ start' = start]_vars

C16_Witness ==
    /\ pc = "chunk"
    /\ Len(catalog) > fetch_size
    /\ Len(catalog) % fetch_size # 0
    /\ start > Len(catalog)
    /\ Len(all_stocks) = Len(catalog)

\* C17: a chunk is requested from the Quote Source only as the first
\* request of the run or after time.sleep ran since the request before it.
C17_DelayBetweenRequests ==
    [][(requested' # requested /\ requested # <<>>) => delayed]_vars

\* The time, in minutes, of entry i of a chart payload.
SlotTime(chart, i) == chart.s \div MinuteSeconds + (i - 1) * RESAMPLE_INTERVAL

\* C18: the start timestamp of a chart payload and the time of each of its
\* entries lie on the date of the symbol's last raw candle; every price in
\* p is the rounded close of a raw candle of that date, stamped at the
\* entry's time; and no raw candle of an earlier date is stamped at the time
\* of any entry.
C18_ChartIsLatestSession ==
    \A k \in 1..Len(history_cache) :
        LET symbol == history_cache[k].key
            chart == history_cache[k].val
            session_date == Date(LastRow(Rows(symbol)).ts)
        IN  /\ chart.s % MinuteSeconds = 0
            /\ Date(chart.s \div MinuteSeconds) = session_date
            /\ \A i \in 1..Len(chart.p) :
                 /\ Date(SlotTime(chart, i)) = session_date
                 /\ chart.p[i] # None =>
                      \E r \in SessionRows(symbol) :
                         /\ r.ts = SlotTime(chart, i)
                         /\ chart.p[i] = Num(Round2(r.close.v))
                 /\ \A r \in EarlierRows(symbol) : r.ts # SlotTime(chart, i)

C18_Witness ==
    \E k \in 1..Len(history_cache) :
        /\ Cardinality(EarlierRows(history_cache[k].key)) >= 2
        /\ Len(history_cache[k].val.p) = 1
        /\ history_cache[k].val.p[1] # None

\* C19: in every state, every symbol of the chart map, of a shard and of a
\* written shard file is a symbol of the snapshot list, and of the written
\* snapshot file when there is one and shard files exist.
C19_ChartedHaveSnapshot ==
    /\ Keys(history_cache) \subseteq SnapshotSymbols
    /\ \A k \in 1..Len(shards) : Keys(shards[k].val) \subseteq SnapshotSymbols
    /\ FiledSymbols \subseteq SnapshotSymbols
    /\ latest_json.state = "written" =>
         FiledSymbols \subseteq
             {latest_json.content[i].symbol : i \in 1..Len(latest_json.content)}

C19_Witness ==
    /\ pc = "done"
    /\ Keys(history_cache) # {}
    /\ SnapshotSymbols \ Keys(history_cache) # {}
    /\ FiledSymbols = Keys(history_cache)
    /\ latest_json.state = "written"

\* The symbols of a batch of profiles.
SymbolsOf(chunk) == {chunk[j].symbol : j \in 1..Len(chunk)}

\* C20: the batches handed to the Catalog upsert are, in order, the
\* consecutive slices of at most chunk_size profiles of the master list,
\* each handed over once; a failing upload leaves the Catalog as it is and
\* the loop goes on with the next batch; a successful upload stores every
\* profile of the batch and keeps the rows of every other symbol; and at the
\* end the batches cover the master list and every profile of a successful
\* batch is the Catalog's only row of its symbol, unless a later successful
\* batch carried the symbol again.
C20_SeederBatches ==
    /\ [](\A k \in 1..Len(uploads) :
            /\ uploads[k].chunk =
                 SubSeq(master_list, (k - 1) * chunk_size + 1,
                        Min(k * chunk_size, Len(master_list)))
            /\ Len(uploads[k].chunk) \in 1..chunk_size)
    /\ [](pc = "seed" => batch_start = Len(uploads) * chunk_size)
    /\ [][uploads' # uploads =>
            /\ Len(uploads') = Len(uploads) + 1
            /\ SubSeq(uploads', 1, Len(uploads)) = uploads
            /\ pc' = "seed"
            /\ batch_start' = batch_start + chunk_size
            /\ LET last == uploads'[Len(uploads')]
               IN  IF last.ok
                   THEN /\ Range(last.chunk) \subseteq Range(catalog')
                        /\ \A r \in Range(catalog) :
                             r.symbol \notin SymbolsOf(last.chunk) => r \in Range(catalog')
                        /\ Range(catalog') \subseteq Range(catalog) \cup Range(last.chunk)
                   ELSE catalog' = catalog]_vars
    /\ [](pc = "seeded" =>
            /\ Concat([k \in 1..Len(uploads) |-> uploads[k].chunk]) = master_list
            /\ \A k \in 1..Len(uploads) :
                 uploads[k].ok =>
                     \A p \in Range(uploads[k].chunk) :
                         /\ Cardinality({n \in 1..Len(catalog) :
                                           catalog[n].symbol = p.symbol}) = 1
                         /\ (\A m \in (k + 1)..Len(uploads) :
                                ~(uploads[m].ok /\ p.symbol \in SymbolsOf(uploads[m].chunk)))
                              => p \in Range(catalog))

C20_Witness ==
    /\ pc = "seeded"
    /\ Len(uploads) = 2
    /\ ~uploads[1].ok
    /\ Accepted(uploads[1].chunk)
    /\ uploads[2].ok
    /\ Len(catalog) = 3
    /\ catalog[1].company_name = "Alpha Inc"

====
